---- MODULE Spec2Model ----
(***************************************************************************)
(* humble_orm: the SELECT builder (src/select.rs), the condition helpers   *)
(* (src/lib.rs), the column descriptor (src/sql_column.rs), the table      *)
(* descriptor (src/sql_table.rs) and the value codec (src/sql_value.rs).   *)
(*                                                                         *)
(* A Rust String is modelled as a sequence of one-character strings, so    *)
(* that formatting, escaping and slicing are computed character by         *)
(* character.  Option<u32> is <<>> for None and <<n>> for Some(n).         *)
(***************************************************************************)
EXTENDS Integers, Sequences, FiniteSets, TLC

VARIABLES
    debug_assertions, \* cfg(debug_assertions) of the build: dev (TRUE) or release (FALSE)
    columns,          \* Select.columns
    table,            \* Select.table, the from/join clause
    cond,             \* Select.cond, the WHERE list
    group_by,         \* Select.group_by
    having,           \* Select.having, the HAVING list
    order_by,         \* Select.order_by
    limit,            \* Select.limit
    offset,           \* Select.offset
    status,           \* "live", "panicked" (a panic!() unwound) or "built" (build() consumed self)
    sql,              \* the String returned by build()
    hist,             \* per clause, the inputs the caller has supplied so far, in call order
    ncalls,           \* number of mutator calls made on this accumulator
    call,             \* the pure function last called, with its arguments
    ret               \* what that call returned

selectVars == <<debug_assertions, columns, table, cond, group_by, having,
                order_by, limit, offset, status, sql, hist, ncalls>>
fnVars == <<call, ret>>
vars == <<debug_assertions, columns, table, cond, group_by, having,
          order_by, limit, offset, status, sql, hist, ncalls, call, ret>>

(***************************************************************************)
(* Bounds                                                                  *)
(***************************************************************************)
MaxCalls == 3
MaxConds == 3
MaxIndex == 3
MaxValues == 2
MaxStrLen == 3

(***************************************************************************)
(* String helpers                                                          *)
(***************************************************************************)
IsPrefix(p, s) == Len(p) <= Len(s) /\ SubSeq(s, 1, Len(p)) = p

EndsWith(s, x) == Len(x) <= Len(s) /\ SubSeq(s, Len(s) - Len(x) + 1, Len(s)) = x

OccursAt(s, x, i) == i >= 1 /\ i + Len(x) - 1 <= Len(s) /\ SubSeq(s, i, i + Len(x) - 1) = x

Positions(s, x) == {i \in 1..(Len(s) - Len(x) + 1) : OccursAt(s, x, i)}

Contains(s, x) == \E i \in 1..(Len(s) - Len(x) + 1) : OccursAt(s, x, i)

Occurrences(s, x) == Cardinality(Positions(s, x))

Min(P) == CHOOSE i \in P : \A j \in P : i <= j

\* position of the first occurrence of x in s, 0 when there is none
IndexOf(s, x) == LET P == Positions(s, x) IN IF P = {} THEN 0 ELSE Min(P)

\* [String]::join(sep)
RECURSIVE JoinStr(_, _)
JoinStr(v, sep) ==
    IF v = <<>> THEN <<>>
    ELSE IF Len(v) = 1 THEN v[1]
    ELSE v[1] \o sep \o JoinStr(Tail(v), sep)

\* Display of an unsigned integer: decimal digits, no padding, no sign
Digit(d) == <<"0", "1", "2", "3", "4", "5", "6", "7", "8", "9">>[d + 1]

RECURSIVE ToDec(_)
ToDec(n) == IF n < 10 THEN <<Digit(n)>> ELSE ToDec(n \div 10) \o <<Digit(n % 10)>>

(***************************************************************************)
(* String literals of src/select.rs                                        *)
(***************************************************************************)
kwSELECT == <<"S", "E", "L", "E", "C", "T", " ">>
kwFROM == <<" ", "F", "R", "O", "M", " ">>
kwWHERE == <<" ", "W", "H", "E", "R", "E", " ">>
kwGROUPBY == <<" ", "G", "R", "O", "U", "P", " ", "B", "Y", " ">>
kwHAVING == <<" ", "H", "A", "V", "I", "N", "G", " ">>
kwORDERBY == <<" ", "O", "R", "D", "E", "R", " ", "B", "Y", " ">>
kwLIMIT == <<" ", "L", "I", "M", "I", "T", " ">>
kwOFFSET == <<" ", "O", "F", "F", "S", "E", "T", " ">>
kwINNERJOIN == <<" ", "I", "N", "N", "E", "R", " ", "J", "O", "I", "N", " ">>
kwLEFTJOIN == <<" ", "L", "E", "F", "T", " ", "J", "O", "I", "N", " ">>
kwON == <<" ", "O", "N", " ">>
kwAND == <<" ", "A", "N", "D", " ">>
kwOR == <<" ", "O", "R", " ">>

(***************************************************************************)
(* Inputs                                                                  *)
(***************************************************************************)
\* fragments a caller passes: the empty string, a bare one, one built with OR
fragA == <<"a">>
fragOr == <<"b", " ", "O", "R", " ", "c">>
Frag == {<<>>, fragA, fragOr}

\* the column and table descriptors generated for the tables of examples/sqlite.rs;
\* identifiers are stored escaped, as SqlColumn::new and TABLE_NAME require
tblUser == <<"\"", "U", "s", "e", "r", "\"">>
tblUserData == <<"\"", "U", "s", "e", "r", "D", "a", "t", "a", "\"">>

SqlColumn_new(name, tbl, is_primary) ==
    [name |-> name, table_name |-> tbl, is_primary |-> is_primary]

User ==
    [TABLE_NAME |-> tblUser,
     COLUMNS |-> <<SqlColumn_new(<<"\"", "i", "d", "\"">>, tblUser, TRUE),
                   SqlColumn_new(<<"\"", "n", "a", "m", "e", "\"">>, tblUser, FALSE),
                   SqlColumn_new(<<"\"", "d", "a", "t", "a", "_", "i", "d", "\"">>, tblUser, FALSE)>>]

UserData ==
    [TABLE_NAME |-> tblUserData,
     COLUMNS |-> <<SqlColumn_new(<<"\"", "i", "d", "\"">>, tblUserData, TRUE),
                   SqlColumn_new(<<"\"", "u", "s", "e", "r", "V", "a", "l", "u", "e", "1", "\"">>,
                                 tblUserData, FALSE),
                   SqlColumn_new(<<"\"", "u", "s", "e", "r", "V", "a", "l", "u", "e", "2", "\"">>,
                                 tblUserData, FALSE)>>]

Tables == {User, UserData}

\* T::table_name(): the escaped name of the table type
table_name(T) == T.TABLE_NAME

Clauses == {"columns", "table", "join", "where", "group", "having", "order", "limit", "offset"}

OnLists == {<<>>, <<fragA, fragOr>>}
ColLists == {<<>>, <<fragA, fragOr>>}
Nums == {0, 42}

(***************************************************************************)
(* src/select.rs                                                           *)
(***************************************************************************)
\* format_cond without the parentheses around each fragment
format_cond_bare(c) == JoinStr(c, kwAND)

format_cond(c) ==
    JoinStr([i \in 1..Len(c) |-> <<"(">> \o c[i] \o <<")">>], kwAND)

Live == status = "live" /\ ncalls < MaxCalls

Called(clause, inputs) ==
    /\ hist' = [hist EXCEPT ![clause] = @ \o inputs]
    /\ ncalls' = ncalls + 1
    /\ UNCHANGED <<debug_assertions, status, sql, call, ret>>

Panic ==
    /\ status' = "panicked"
    /\ UNCHANGED <<debug_assertions, columns, table, cond, group_by, having,
                   order_by, limit, offset, sql, hist, ncalls, call, ret>>

\* the body of push_column on a columns text
push_column_text(text, col) ==
    (IF text # <<>> THEN text \o <<",">> ELSE text) \o col

push_column(col) ==
    /\ Live
    /\ columns' = push_column_text(columns, col)
    /\ Called("columns", <<col>>)
    /\ UNCHANGED <<table, cond, group_by, having, order_by, limit, offset>>

RECURSIVE push_columns_text(_, _)
push_columns_text(text, cols) ==
    IF cols = <<>> THEN text
    ELSE push_columns_text(push_column_text(text, Head(cols)), Tail(cols))

push_columns(cols) ==
    /\ Live
    /\ columns' = push_columns_text(columns, cols)
    /\ Called("columns", cols)
    /\ UNCHANGED <<table, cond, group_by, having, order_by, limit, offset>>

set_table(T) ==
    /\ Live
    /\ IF debug_assertions /\ table # <<>>
       THEN Panic
       ELSE /\ table' = table_name(T)
            /\ Called("table", <<T.TABLE_NAME>>)
            /\ UNCHANGED <<columns, cond, group_by, having, order_by, limit, offset>>

inner_join(T, on) ==
    /\ Live
    /\ IF debug_assertions /\ table = <<>>
       THEN Panic
       ELSE /\ table' = table \o kwINNERJOIN \o table_name(T) \o kwON \o format_cond(on)
            /\ Called("join", <<<<"INNER", T.TABLE_NAME, on>>>>)
            /\ UNCHANGED <<columns, cond, group_by, having, order_by, limit, offset>>

left_join(T, on) ==
    /\ Live
    /\ IF debug_assertions /\ table = <<>>
       THEN Panic
       ELSE /\ table' = table \o kwLEFTJOIN \o table_name(T) \o kwON \o format_cond(on)
            /\ Called("join", <<<<"LEFT", T.TABLE_NAME, on>>>>)
            /\ UNCHANGED <<columns, cond, group_by, having, order_by, limit, offset>>

join(T, on) == inner_join(T, on)

push_where_cond(c) ==
    /\ Live
    /\ cond' = Append(cond, c)
    /\ Called("where", <<c>>)
    /\ UNCHANGED <<columns, table, group_by, having, order_by, limit, offset>>

\* push_order that appends the item without the separating comma
push_order_no_comma(order) ==
    /\ Live
    /\ order_by' = order_by \o order
    /\ Called("order", <<order>>)
    /\ UNCHANGED <<columns, table, cond, group_by, having, limit, offset>>

push_order(order) ==
    /\ Live
    /\ order_by' = (IF order_by # <<>> THEN order_by \o <<",">> ELSE order_by) \o order
    /\ Called("order", <<order>>)
    /\ UNCHANGED <<columns, table, cond, group_by, having, limit, offset>>

push_group(group) ==
    /\ Live
    /\ group_by' = (IF group_by # <<>> THEN group_by \o <<",">> ELSE group_by) \o group
    /\ Called("group", <<group>>)
    /\ UNCHANGED <<columns, table, cond, having, order_by, limit, offset>>

push_having(h) ==
    /\ Live
    /\ having' = Append(having, h)
    /\ Called("having", <<h>>)
    /\ UNCHANGED <<columns, table, cond, group_by, order_by, limit, offset>>

set_limit(m) ==
    /\ Live
    /\ limit' = <<m>>
    /\ Called("limit", <<m>>)
    /\ UNCHANGED <<columns, table, cond, group_by, having, order_by, offset>>

set_limit_offset(n) ==
    /\ Live
    /\ offset' = <<n>>
    /\ Called("offset", <<n>>)
    /\ UNCHANGED <<columns, table, cond, group_by, having, order_by, limit>>

\* the fluent surface: each calls the in-place mutator and returns self
with_column(col) == push_column(col)
with_columns(cols) == push_columns(cols)
with_table(T) == set_table(T)
with_join(T, on) == inner_join(T, on)
with_inner_join(T, on) == inner_join(T, on)
with_left_join(T, on) == left_join(T, on)
with_where_cond(c) == push_where_cond(c)
with_order(order) == push_order(order)
with_group(group) == push_group(group)
with_having(h) == push_having(h)
with_limit(m) == set_limit(m)
with_limit_offset(n) == set_limit_offset(n)

\* build() with the OFFSET rendered outside the test for a limit
build_sql_offset_alone ==
    LET s0 == kwSELECT \o columns \o kwFROM \o table
        s1 == IF cond # <<>> THEN s0 \o kwWHERE \o format_cond(cond) ELSE s0
        s2 == IF group_by # <<>> THEN s1 \o kwGROUPBY \o group_by ELSE s1
        s3 == IF having # <<>> THEN s2 \o kwHAVING \o format_cond(having) ELSE s2
        s4 == IF order_by # <<>> THEN s3 \o kwORDERBY \o order_by ELSE s3
        s5 == IF limit # <<>> THEN s4 \o kwLIMIT \o ToDec(limit[1]) ELSE s4
        s6 == IF offset # <<>> THEN s5 \o kwOFFSET \o ToDec(offset[1]) ELSE s5
    IN  s6

\* build() with the HAVING block placed before the GROUP BY block
build_sql_having_first ==
    LET s0 == kwSELECT \o columns \o kwFROM \o table
        s1 == IF cond # <<>> THEN s0 \o kwWHERE \o format_cond(cond) ELSE s0
        s2 == IF having # <<>> THEN s1 \o kwHAVING \o format_cond(having) ELSE s1
        s3 == IF group_by # <<>> THEN s2 \o kwGROUPBY \o group_by ELSE s2
        s4 == IF order_by # <<>> THEN s3 \o kwORDERBY \o order_by ELSE s3
        s5 == IF limit # <<>>
              THEN LET l == s4 \o kwLIMIT \o ToDec(limit[1])
                   IN  IF offset # <<>> THEN l \o kwOFFSET \o ToDec(offset[1]) ELSE l
              ELSE s4
    IN  s5

\* the text build() assembles from the fields
build_sql ==
    LET s0 == kwSELECT \o columns \o kwFROM \o table
        s1 == IF cond # <<>> THEN s0 \o kwWHERE \o format_cond(cond) ELSE s0
        s2 == IF group_by # <<>> THEN s1 \o kwGROUPBY \o group_by ELSE s1
        s3 == IF having # <<>> THEN s2 \o kwHAVING \o format_cond(having) ELSE s2
        s4 == IF order_by # <<>> THEN s3 \o kwORDERBY \o order_by ELSE s3
        s5 == IF limit # <<>>
              THEN LET l == s4 \o kwLIMIT \o ToDec(limit[1])
                   IN  IF offset # <<>>
                       THEN l \o kwOFFSET \o ToDec(offset[1])
                       ELSE l
              ELSE s4
    IN  s5

build ==
    /\ status = "live"
    /\ sql' = build_sql
    /\ status' = "built"
    /\ UNCHANGED <<debug_assertions, columns, table, cond, group_by, having,
                   order_by, limit, offset, hist, ncalls, call, ret>>

\* Select::new() under either build profile
Init ==
    /\ debug_assertions \in BOOLEAN
    /\ columns = <<>>
    /\ table = <<>>
    /\ cond = <<>>
    /\ group_by = <<>>
    /\ having = <<>>
    /\ order_by = <<>>
    /\ limit = <<>>
    /\ offset = <<>>
    /\ status = "live"
    /\ sql = <<>>
    /\ hist = [c \in Clauses |-> <<>>]
    /\ ncalls = 0
    /\ call = [fn |-> "none"]
    /\ ret = <<>>

Next ==
    \/ \E col \in Frag : push_column(col)
    \/ \E cols \in ColLists : push_columns(cols)
    \/ \E T \in Tables : set_table(T)
    \/ \E T \in Tables, on \in OnLists : join(T, on)
    \/ \E T \in Tables, on \in OnLists : inner_join(T, on)
    \/ \E T \in Tables, on \in OnLists : left_join(T, on)
    \/ \E c \in Frag : push_where_cond(c)
    \/ \E order \in Frag : push_order(order)
    \/ \E group \in Frag : push_group(group)
    \/ \E h \in Frag : push_having(h)
    \/ \E m \in Nums : set_limit(m)
    \/ \E n \in Nums : set_limit_offset(n)
    \/ \E col \in Frag : with_column(col)
    \/ \E cols \in ColLists : with_columns(cols)
    \/ \E T \in Tables : with_table(T)
    \/ \E T \in Tables, on \in OnLists : with_join(T, on)
    \/ \E T \in Tables, on \in OnLists : with_inner_join(T, on)
    \/ \E T \in Tables, on \in OnLists : with_left_join(T, on)
    \/ \E c \in Frag : with_where_cond(c)
    \/ \E order \in Frag : with_order(order)
    \/ \E group \in Frag : with_group(group)
    \/ \E h \in Frag : with_having(h)
    \/ \E m \in Nums : with_limit(m)
    \/ \E n \in Nums : with_limit_offset(n)
    \/ build

Spec == Init /\ [][Next]_vars

(***************************************************************************)
(* src/sql_value.rs: the value codec                                       *)
(***************************************************************************)
\* Debug of one character of a str: the double quote, the backslash and the control
\* characters are escaped, the single quote is not
\* Debug of a character that leaves the backslash as it is
escape_debug_no_backslash(ch) ==
    CASE ch = "\"" -> <<"\\", "\"">>
      [] ch = "\n" -> <<"\\", "n">>
      [] ch = "\t" -> <<"\\", "t">>
      [] ch = "\r" -> <<"\\", "r">>
      [] OTHER -> <<ch>>

escape_debug(ch) ==
    CASE ch = "\"" -> <<"\\", "\"">>
      [] ch = "\\" -> <<"\\", "\\">>
      [] ch = "\n" -> <<"\\", "n">>
      [] ch = "\t" -> <<"\\", "t">>
      [] ch = "\r" -> <<"\\", "r">>
      [] OTHER -> <<ch>>

RECURSIVE escape_str(_)
escape_str(s) == IF s = <<>> THEN <<>> ELSE escape_debug(Head(s)) \o escape_str(Tail(s))

\* format!("{s:?}")
fmt_debug(s) == <<"\"">> \o escape_str(s) \o <<"\"">>

\* Display of a signed integer
fmt_int(n) == IF n < 0 THEN <<"-">> \o ToDec(0 - n) ELSE ToDec(n)

fmt_bool(b) == IF b THEN <<"t", "r", "u", "e">> ELSE <<"f", "a", "l", "s", "e">>

\* impl Display for SqlColumn
fmt_column(col) == col.table_name \o <<".">> \o col.name

\* SqlValue::to_sql of a value tagged with its Rust type
to_sql(val) ==
    CASE val.ty = "str" -> fmt_debug(val.v)
      [] val.ty = "i32" -> fmt_int(val.v)
      [] val.ty = "bool" -> fmt_bool(val.v)
      [] val.ty = "SqlColumn" -> fmt_column(val.v)

\* impl SqlValue for String and for &str
String_to_sql(s) == fmt_debug(s)

\* {n:0w} of an integer: the sign, then zeros up to the width w, then the digits;
\* a number that needs more than w characters is written in full
RECURSIVE Zeros(_)
Zeros(k) == IF k <= 0 THEN <<>> ELSE <<"0">> \o Zeros(k - 1)

pad_zero(n, w) ==
    LET sign == IF n < 0 THEN <<"-">> ELSE <<>>
        digits == ToDec(IF n < 0 THEN 0 - n ELSE n)
        fill == w - Len(sign) - Len(digits)
    IN  sign \o Zeros(fill) \o digits

\* impl SqlValue for time::Date
Date_to_sql(d) ==
    <<"\"">> \o pad_zero(d.year, 4) \o <<"-">> \o pad_zero(d.month, 2) \o <<"-">>
        \o pad_zero(d.day, 2) \o <<"\"">>

\* impl SqlValue for time::Time
Time_to_sql(t) ==
    <<"\"">> \o pad_zero(t.hour, 2) \o <<":">> \o pad_zero(t.minute, 2) \o <<":">>
        \o pad_zero(t.second, 2) \o <<"\"">>

\* impl SqlValue for time::PrimitiveDateTime
PrimitiveDateTime_to_sql(dt) ==
    <<"\"">> \o pad_zero(dt.year, 4) \o <<"-">> \o pad_zero(dt.month, 2) \o <<"-">>
        \o pad_zero(dt.day, 2) \o <<"T">> \o pad_zero(dt.hour, 2) \o <<":">>
        \o pad_zero(dt.minute, 2) \o <<":">> \o pad_zero(dt.second, 2) \o <<"\"">>

(***************************************************************************)
(* src/lib.rs: condition composition                                       *)
(***************************************************************************)
join_and(c) ==
    JoinStr([i \in 1..Len(c) |-> <<"(">> \o c[i] \o <<")">>], kwAND)

\* join_or joining with the separator of join_and
join_or_with_and(c) ==
    JoinStr([i \in 1..Len(c) |-> <<"(">> \o c[i] \o <<")">>], kwAND)

join_or(c) ==
    JoinStr([i \in 1..Len(c) |-> <<"(">> \o c[i] \o <<")">>], kwOR)

(***************************************************************************)
(* src/sql_column.rs                                                       *)
(***************************************************************************)
trim_quotes(s) ==
    LET len == Len(s) IN
    IF len >= 2
    THEN IF \/ (s[1] = "\"" /\ s[len] = "\"")
            \/ (s[1] = "'" /\ s[len] = "'")
         THEN \* from_raw_parts(bytes.as_ptr().add(1), len - 1)
              SubSeq(s, 2, 1 + (len - 1))
         ELSE s
    ELSE s

SqlColumn_name(col) == trim_quotes(col.name)

kwAS == <<" ", "A", "S", " ">>

count_as(col, alias) ==
    <<"C", "O", "U", "N", "T", "(">> \o fmt_column(col) \o <<")">> \o kwAS \o fmt_debug(alias)

sum_as(col, alias) ==
    <<"S", "U", "M", "(">> \o fmt_column(col) \o <<")">> \o kwAS \o fmt_debug(alias)

avg_as(col, alias) ==
    <<"A", "V", "G", "(">> \o fmt_column(col) \o <<")">> \o kwAS \o alias

min_as(col, alias) ==
    <<"M", "I", "N", "(">> \o fmt_column(col) \o <<")">> \o kwAS \o alias

max_as(col, alias) ==
    <<"M", "A", "X", "(">> \o fmt_column(col) \o <<")">> \o kwAS \o alias

\* in_list without the test for an empty list
in_list_unguarded(col, values) ==
    LET tmp == [i \in 1..Len(values) |-> to_sql(values[i])] IN
    fmt_column(col) \o <<" ", "I", "N", " ", "(">> \o JoinStr(tmp, <<",">>) \o <<")">>

in_list(col, values) ==
    LET tmp == [i \in 1..Len(values) |-> to_sql(values[i])] IN
    IF tmp = <<>>
    THEN <<"f", "a", "l", "s", "e">>
    ELSE fmt_column(col) \o <<" ", "I", "N", " ", "(">> \o JoinStr(tmp, <<",">>) \o <<")">>

not_in_list(col, values) ==
    LET tmp == [i \in 1..Len(values) |-> to_sql(values[i])] IN
    IF tmp = <<>>
    THEN <<"t", "r", "u", "e">>
    ELSE fmt_column(col) \o <<" ", "N", "O", "T", " ", "I", "N", " ", "(">>
            \o JoinStr(tmp, <<",">>) \o <<")">>

(***************************************************************************)
(* src/sql_table.rs.  Option is <<>> for None and <<x>> for Some(x);       *)
(* indices are 0-based as in the source.                                   *)
(***************************************************************************)
has_column(T, name) ==
    \E i \in 1..Len(T.COLUMNS) : SqlColumn_name(T.COLUMNS[i]) = name

column_index(T, name) ==
    LET found == {i \in 1..Len(T.COLUMNS) : SqlColumn_name(T.COLUMNS[i]) = name} IN
    IF found = {} THEN <<>>
    ELSE <<(CHOOSE i \in found : \A j \in found : i <= j) - 1>>

column_name_at(T, index) ==
    IF index < Len(T.COLUMNS) THEN <<SqlColumn_name(T.COLUMNS[index + 1])>> ELSE <<>>

(***************************************************************************)
(* Calls of the pure functions                                             *)
(***************************************************************************)
SeqsUpTo(S, n) == UNION {[1..k -> S] : k \in 0..n}

CondLists == SeqsUpTo(Frag, MaxConds)

Columns == {T.COLUMNS[i] : T \in Tables, i \in 1..3}

Aliases == {<<>>, <<"n">>, <<"a", " ", "b">>, <<"x", "\"", "y">>}

IntValues == {[ty |-> "i32", v |-> n] : n \in {-7, 0, 42}}
StrValues == {[ty |-> "str", v |-> s] : s \in {<<>>, <<"a">>, <<"x", "\"", "y">>, <<"\\">>}}
BoolValues == {[ty |-> "bool", v |-> b] : b \in BOOLEAN}
ColValues == {[ty |-> "SqlColumn", v |-> User.COLUMNS[1]]}

\* an IntoIterator yields items of one type
ValueLists ==
    SeqsUpTo(IntValues, MaxValues) \cup SeqsUpTo(StrValues, MaxValues)
        \cup SeqsUpTo(BoolValues, MaxValues) \cup SeqsUpTo(ColValues, MaxValues)

NameArgs ==
    {<<"i", "d">>, <<"n", "a", "m", "e">>, <<"d", "a", "t", "a", "_", "i", "d">>,
     <<"u", "s", "e", "r", "V", "a", "l", "u", "e", "1">>,
     <<"u", "s", "e", "r", "V", "a", "l", "u", "e", "2">>,
     <<"n", "o", "p", "e">>, <<"i", "d", "\"">>, <<"\"", "i", "d", "\"">>}

\* the characters of the strings handed to the codec
Alphabet == {"a", "n", "'", "\"", "\\", "\n"}

StrInputs == SeqsUpTo(Alphabet, MaxStrLen)

\* dates and times of the time crate: years -9999..9999
Years == {-9999, -1000, -5, 0, 999, 1000, 2024, 9999}
MonthDays == {<<1, 1>>, <<2, 9>>, <<12, 31>>}
Dates == {[year |-> y, month |-> md[1], day |-> md[2]] : y \in Years, md \in MonthDays}
Times == {[hour |-> h, minute |-> m, second |-> sec] :
            h \in {0, 9, 23}, m \in {0, 59}, sec \in {0, 5, 59}}
DateTimes ==
    {[year |-> d.year, month |-> d.month, day |-> d.day,
      hour |-> t.hour, minute |-> t.minute, second |-> t.second] :
        d \in Dates, t \in {[hour |-> 0, minute |-> 0, second |-> 0],
                            [hour |-> 23, minute |-> 59, second |-> 59],
                            [hour |-> 9, minute |-> 5, second |-> 7]}}

call_String_to_sql ==
    \E str \in StrInputs :
        /\ call.fn = "none"
        /\ call' = [fn |-> "String_to_sql", s |-> str]
        /\ ret' = String_to_sql(str)
        /\ UNCHANGED selectVars

call_Date_to_sql ==
    \E d \in Dates :
        /\ call.fn = "none"
        /\ call' = [fn |-> "Date_to_sql", v |-> d]
        /\ ret' = Date_to_sql(d)
        /\ UNCHANGED selectVars

call_Time_to_sql ==
    \E t \in Times :
        /\ call.fn = "none"
        /\ call' = [fn |-> "Time_to_sql", v |-> t]
        /\ ret' = Time_to_sql(t)
        /\ UNCHANGED selectVars

call_PrimitiveDateTime_to_sql ==
    \E dt \in DateTimes :
        /\ call.fn = "none"
        /\ call' = [fn |-> "PrimitiveDateTime_to_sql", v |-> dt]
        /\ ret' = PrimitiveDateTime_to_sql(dt)
        /\ UNCHANGED selectVars

call_join_and ==
    \E c \in CondLists :
        /\ call.fn = "none"
        /\ call' = [fn |-> "join_and", cond |-> c]
        /\ ret' = join_and(c)
        /\ UNCHANGED selectVars

call_join_or ==
    \E c \in CondLists :
        /\ call.fn = "none"
        /\ call' = [fn |-> "join_or", cond |-> c]
        /\ ret' = join_or(c)
        /\ UNCHANGED selectVars

call_in_list ==
    \E col \in Columns, vs \in ValueLists :
        /\ call.fn = "none"
        /\ call' = [fn |-> "in_list", col |-> col, values |-> vs]
        /\ ret' = in_list(col, vs)
        /\ UNCHANGED selectVars

call_not_in_list ==
    \E col \in Columns, vs \in ValueLists :
        /\ call.fn = "none"
        /\ call' = [fn |-> "not_in_list", col |-> col, values |-> vs]
        /\ ret' = not_in_list(col, vs)
        /\ UNCHANGED selectVars

call_count_as ==
    \E col \in Columns, alias \in Aliases :
        /\ call.fn = "none"
        /\ call' = [fn |-> "count_as", col |-> col, alias |-> alias]
        /\ ret' = count_as(col, alias)
        /\ UNCHANGED selectVars

call_sum_as ==
    \E col \in Columns, alias \in Aliases :
        /\ call.fn = "none"
        /\ call' = [fn |-> "sum_as", col |-> col, alias |-> alias]
        /\ ret' = sum_as(col, alias)
        /\ UNCHANGED selectVars

call_avg_as ==
    \E col \in Columns, alias \in Aliases :
        /\ call.fn = "none"
        /\ call' = [fn |-> "avg_as", col |-> col, alias |-> alias]
        /\ ret' = avg_as(col, alias)
        /\ UNCHANGED selectVars

call_min_as ==
    \E col \in Columns, alias \in Aliases :
        /\ call.fn = "none"
        /\ call' = [fn |-> "min_as", col |-> col, alias |-> alias]
        /\ ret' = min_as(col, alias)
        /\ UNCHANGED selectVars

call_max_as ==
    \E col \in Columns, alias \in Aliases :
        /\ call.fn = "none"
        /\ call' = [fn |-> "max_as", col |-> col, alias |-> alias]
        /\ ret' = max_as(col, alias)
        /\ UNCHANGED selectVars

call_name ==
    \E col \in Columns :
        /\ call.fn = "none"
        /\ call' = [fn |-> "name", col |-> col]
        /\ ret' = SqlColumn_name(col)
        /\ UNCHANGED selectVars

call_has_column ==
    \E T \in Tables, name \in NameArgs :
        /\ call.fn = "none"
        /\ call' = [fn |-> "has_column", T |-> T, name |-> name]
        /\ ret' = has_column(T, name)
        /\ UNCHANGED selectVars

call_column_index ==
    \E T \in Tables, name \in NameArgs :
        /\ call.fn = "none"
        /\ call' = [fn |-> "column_index", T |-> T, name |-> name]
        /\ ret' = column_index(T, name)
        /\ UNCHANGED selectVars

call_column_name_at ==
    \E T \in Tables, index \in 0..MaxIndex :
        /\ call.fn = "none"
        /\ call' = [fn |-> "column_name_at", T |-> T, index |-> index]
        /\ ret' = column_name_at(T, index)
        /\ UNCHANGED selectVars

NextFn ==
    \/ call_join_and
    \/ call_join_or
    \/ call_in_list
    \/ call_not_in_list
    \/ call_count_as
    \/ call_sum_as
    \/ call_avg_as
    \/ call_min_as
    \/ call_max_as
    \/ call_name
    \/ call_String_to_sql
    \/ call_Date_to_sql
    \/ call_Time_to_sql
    \/ call_PrimitiveDateTime_to_sql
    \/ call_has_column
    \/ call_column_index
    \/ call_column_name_at

SpecFn == Init /\ [][NextFn]_vars

(***************************************************************************)
(* Properties                                                              *)
(***************************************************************************)
Last(q) == q[Len(q)]

\* offset (from the start of the span) of the k-th of items laid out with sep between them
RECURSIVE Off(_, _, _)
Off(items, sep, k) ==
    IF k = 1 THEN 0 ELSE Off(items, sep, k - 1) + Len(items[k - 1]) + Len(sep)

SpanLen(items, sep) ==
    IF items = <<>> THEN 0 ELSE Off(items, sep, Len(items)) + Len(Last(items))

\* s holds, from position start, the items in order with sep between neighbours
ItemsAt(s, start, items, sep) ==
    \A k \in 1..Len(items) :
        /\ OccursAt(s, items[k], start + Off(items, sep, k))
        /\ k < Len(items) => OccursAt(s, sep, start + Off(items, sep, k) + Len(items[k]))

Wrapped(xs) == [i \in 1..Len(xs) |-> <<"(">> \o xs[i] \o <<")">>]

DecimalText == (0 :> <<"0">>) @@ (42 :> <<"4", "2">>)

SomeText(items) == \E i \in 1..Len(items) : items[i] # <<>>

\* C1: setting the base table is accepted only while the from-clause is empty:
\* a set_table / with_table call on an accumulator whose from-clause is already
\* populated panics and leaves the from-clause as it was.
C1_SecondSetTablePanics ==
    [][\A T \in Tables :
          (table # <<>> /\ (set_table(T) \/ with_table(T)))
              => (status' = "panicked" /\ table' = table)]_vars

\* C2: a join of any flavour on an accumulator without a base table panics, and
\* no accumulator ever has a from-clause that starts with a JOIN segment.
C2_JoinBeforeTablePanics ==
    [][/\ \A T \in Tables, on \in OnLists :
            (table = <<>> /\ (\/ join(T, on) \/ inner_join(T, on) \/ left_join(T, on)
                              \/ with_join(T, on) \/ with_inner_join(T, on)
                              \/ with_left_join(T, on)))
                => status' = "panicked"
       /\ ~IsPrefix(kwINNERJOIN, table')
       /\ ~IsPrefix(kwLEFTJOIN, table')]_vars

\* the segment a join of the given kind appends
JoinSegment(kw, name, on, seg) ==
    /\ IsPrefix(kw \o name \o kwON, seg)
    /\ ItemsAt(seg, Len(kw) + Len(name) + Len(kwON) + 1, Wrapped(on), kwAND)
    /\ Len(seg) = Len(kw) + Len(name) + Len(kwON) + SpanLen(Wrapped(on), kwAND)

\* C3: once the base table is set, every operation keeps the accumulated
\* from-clause as a prefix; a join appends exactly one segment
\* " INNER JOIN {table} ON {cond}" or " LEFT JOIN {table} ON {cond}", with {cond}
\* the fragments each in parentheses joined by " AND "; any other mutator
\* leaves the from-clause unchanged.
C3_FromClauseOnlyGrowsByJoins ==
    [][(table # <<>> /\ status = "live") =>
          /\ IsPrefix(table, table')
          /\ hist'["join"] = hist["join"] => table' = table
          /\ hist'["join"] # hist["join"] =>
                LET j == Last(hist'["join"])
                    seg == SubSeq(table', Len(table) + 1, Len(table'))
                IN  /\ Len(hist'["join"]) = Len(hist["join"]) + 1
                    /\ JoinSegment(IF j[1] = "INNER" THEN kwINNERJOIN ELSE kwLEFTJOIN,
                                   j[2], j[3], seg)]_vars

\* C4: the rendered SQL ends with " LIMIT m OFFSET n" when both were set, with
\* " LIMIT m" and no OFFSET when only the limit was set, and has neither LIMIT
\* nor OFFSET when the limit was never set; m and n are the last values set.
C4_LimitOffsetRendering ==
    status = "built" =>
        LET ls == hist["limit"]
            os == hist["offset"]
        IN  /\ (ls # <<>> /\ os # <<>>) =>
                   EndsWith(sql, kwLIMIT \o DecimalText[Last(ls)]
                                    \o kwOFFSET \o DecimalText[Last(os)])
            /\ (ls # <<>> /\ os = <<>>) =>
                   /\ EndsWith(sql, kwLIMIT \o DecimalText[Last(ls)])
                   /\ ~Contains(sql, kwOFFSET)
            /\ ls = <<>> => (~Contains(sql, kwLIMIT) /\ ~Contains(sql, kwOFFSET))

\* C4 witness: built after the limit was set twice and an offset was set
C4_Witness ==
    /\ status = "built"
    /\ Len(hist["limit"]) = 2
    /\ hist["limit"][1] # hist["limit"][2]
    /\ hist["offset"] # <<>>

KW == <<kwSELECT, kwFROM, kwWHERE, kwGROUPBY, kwHAVING, kwORDERBY, kwLIMIT, kwOFFSET>>

\* the keywords KW[k..8] occur in s at most once each, in this order, after position last
RECURSIVE InOrder(_, _, _)
OrderedFrom(s, k, last, P) ==
    IF P = {} THEN InOrder(s, k + 1, last)
    ELSE Cardinality(P) = 1 /\ Min(P) > last /\ InOrder(s, k + 1, Min(P))

InOrder(s, k, last) ==
    IF k > 8 THEN TRUE ELSE OrderedFrom(s, k, last, Positions(s, KW[k]))

FixedOrder(s) == InOrder(s, 1, 0)

\* C5 as stated: fixed clause order, and every clause keyword appears if and
\* only if its input was supplied at least once.
C5_KeywordIffSupplied ==
    status = "built" =>
        /\ FixedOrder(sql)
        /\ Contains(sql, kwSELECT) <=> hist["columns"] # <<>>
        /\ Contains(sql, kwFROM) <=> hist["table"] # <<>>
        /\ Contains(sql, kwWHERE) <=> hist["where"] # <<>>
        /\ Contains(sql, kwGROUPBY) <=> hist["group"] # <<>>
        /\ Contains(sql, kwHAVING) <=> hist["having"] # <<>>
        /\ Contains(sql, kwORDERBY) <=> hist["order"] # <<>>
        /\ Contains(sql, kwLIMIT) <=> hist["limit"] # <<>>
        /\ Contains(sql, kwOFFSET) <=> hist["offset"] # <<>>

\* C5 amended: fixed clause order; SELECT and FROM always appear; WHERE and
\* HAVING appear iff a condition was pushed, GROUP BY and ORDER BY iff some
\* non-empty item was pushed, LIMIT iff a limit was set, OFFSET iff both a
\* limit and an offset were set; each clause body follows its keyword and the
\* output holds nothing but the clauses present.
C5_FixedClauseOrder ==
    status = "built" =>
        LET present == <<TRUE, TRUE, hist["where"] # <<>>, SomeText(hist["group"]),
                         hist["having"] # <<>>, SomeText(hist["order"]),
                         hist["limit"] # <<>>,
                         hist["limit"] # <<>> /\ hist["offset"] # <<>>>>
            body == <<columns, table,
                      IF cond = <<>> THEN <<>>
                      ELSE SubSeq(sql, IndexOf(sql, kwWHERE) + Len(kwWHERE),
                                  IndexOf(sql, kwWHERE) + Len(kwWHERE)
                                      + SpanLen(Wrapped(cond), kwAND) - 1),
                      group_by,
                      IF having = <<>> THEN <<>>
                      ELSE SubSeq(sql, IndexOf(sql, kwHAVING) + Len(kwHAVING),
                                  IndexOf(sql, kwHAVING) + Len(kwHAVING)
                                      + SpanLen(Wrapped(having), kwAND) - 1),
                      order_by,
                      IF limit = <<>> THEN <<>> ELSE DecimalText[limit[1]],
                      IF offset = <<>> THEN <<>> ELSE DecimalText[offset[1]]>>
            RECURSIVE Total(_)
            Total(k) ==
                IF k = 0 THEN 0
                ELSE Total(k - 1) + (IF present[k] THEN Len(KW[k]) + Len(body[k]) ELSE 0)
        IN  /\ FixedOrder(sql)
            /\ IsPrefix(kwSELECT, sql)
            /\ \A k \in 1..8 : Contains(sql, KW[k]) <=> present[k]
            /\ \A k \in 1..8 :
                  present[k] => OccursAt(sql, body[k], IndexOf(sql, KW[k]) + Len(KW[k]))
            /\ Len(sql) = Total(8)

\* C5 witness: built with WHERE, GROUP BY and an offset that has no limit
C5_Witness ==
    /\ status = "built"
    /\ hist["where"] # <<>>
    /\ SomeText(hist["group"])
    /\ hist["offset"] # <<>>
    /\ hist["limit"] = <<>>

\* C6: WHERE and HAVING conditions are two independent lists in call order, and
\* build() renders each as its n elements, each in parentheses, in insertion
\* order with n-1 " AND " between them, directly after its keyword.
C6_ConditionLists ==
    /\ status # "panicked" => (cond = hist["where"] /\ having = hist["having"])
    /\ status = "built" =>
          /\ hist["where"] # <<>> =>
                LET at == IndexOf(sql, kwWHERE) + Len(kwWHERE)
                    seg == SubSeq(sql, at, at + SpanLen(Wrapped(hist["where"]), kwAND) - 1)
                IN  /\ ItemsAt(sql, at, Wrapped(hist["where"]), kwAND)
                    /\ Occurrences(seg, <<"(">>) = Len(hist["where"])
                    /\ Occurrences(seg, <<")">>) = Len(hist["where"])
                    /\ Occurrences(seg, kwAND) = Len(hist["where"]) - 1
          /\ hist["having"] # <<>> =>
                LET at == IndexOf(sql, kwHAVING) + Len(kwHAVING)
                    seg == SubSeq(sql, at, at + SpanLen(Wrapped(hist["having"]), kwAND) - 1)
                IN  /\ ItemsAt(sql, at, Wrapped(hist["having"]), kwAND)
                    /\ Occurrences(seg, <<"(">>) = Len(hist["having"])
                    /\ Occurrences(seg, <<")">>) = Len(hist["having"])
                    /\ Occurrences(seg, kwAND) = Len(hist["having"]) - 1

\* C6 witness: built with two WHERE conditions, one of them an OR, and a HAVING
C6_Witness ==
    /\ status = "built"
    /\ Len(hist["where"]) = 2
    /\ fragOr \in {hist["where"][1], hist["where"][2]}
    /\ Len(hist["having"]) = 1

\* C7: join_and / join_or return the empty string for no fragments, "(a)" for
\* one fragment, and otherwise the fragments each wrapped in parentheses, in
\* input order, separated by " AND " / " OR ", with nothing before or after.
C7_JoinAndOr ==
    call.fn \in {"join_and", "join_or"} =>
        LET xs == call.cond
            sep == IF call.fn = "join_and"
                   THEN <<" ", "A", "N", "D", " ">> ELSE <<" ", "O", "R", " ">>
        IN  /\ xs = <<>> => ret = <<>>
            /\ Len(xs) = 1 => ret = <<"(">> \o xs[1] \o <<")">>
            /\ ItemsAt(ret, 1, Wrapped(xs), sep)
            /\ Len(ret) = SpanLen(Wrapped(xs), sep)

\* C7 witness: join_or of three fragments, one of them itself an OR
C7_Witness ==
    /\ call.fn = "join_or"
    /\ Len(call.cond) = 3
    /\ call.cond[2] = fragOr
    /\ ret # <<>>

\* C8: in_list([]) is exactly "false" and not_in_list([]) exactly "true"; for a
\* non-empty list the result is "{table}.{column} IN (" or "... NOT IN (", the
\* literals of the values in input order separated by commas, and ")"; the
\* result never ends in empty parentheses.
C8_InList ==
    call.fn \in {"in_list", "not_in_list"} =>
        LET vs == call.values
            lits == [i \in 1..Len(vs) |-> to_sql(vs[i])]
            op == IF call.fn = "in_list"
                  THEN <<" ", "I", "N", " ", "(">>
                  ELSE <<" ", "N", "O", "T", " ", "I", "N", " ", "(">>
            head == call.col.table_name \o <<".">> \o call.col.name \o op
        IN  /\ vs = <<>> =>
                  ret = (IF call.fn = "in_list"
                         THEN <<"f", "a", "l", "s", "e">> ELSE <<"t", "r", "u", "e">>)
            /\ vs # <<>> =>
                  /\ IsPrefix(head, ret)
                  /\ ItemsAt(ret, Len(head) + 1, lits, <<",">>)
                  /\ Len(ret) = Len(head) + SpanLen(lits, <<",">>) + 1
                  /\ Last(ret) = ")"
            /\ ~EndsWith(ret, <<"(", ")">>)

\* C8 witness: not_in_list of two strings, and in_list of no value at all
C8_Witness ==
    \/ /\ call.fn = "not_in_list"
       /\ Len(call.values) = 2
       /\ call.values[1].ty = "str"
       /\ call.values[1] # call.values[2]
    \/ /\ call.fn = "in_list"
       /\ call.values = <<>>
       /\ ret = <<"f", "a", "l", "s", "e">>

FuncName ==
    [count_as |-> <<"C", "O", "U", "N", "T">>, sum_as |-> <<"S", "U", "M">>,
     avg_as |-> <<"A", "V", "G">>, min_as |-> <<"M", "I", "N">>,
     max_as |-> <<"M", "A", "X">>]

\* C9: each of count_as, sum_as, avg_as, min_as and max_as renders
\* "{FUNC}({table}.{column}) AS " followed by the alias as a double-quoted
\* identifier: the text after AS starts and ends with a double quote around
\* the alias.
C9_AggregateAliasQuoted ==
    call.fn \in {"count_as", "sum_as", "avg_as", "min_as", "max_as"} =>
        LET head == FuncName[call.fn] \o <<"(">> \o call.col.table_name \o <<".">>
                        \o call.col.name \o <<")", " ", "A", "S", " ">>
            rest == SubSeq(ret, Len(head) + 1, Len(ret))
        IN  /\ IsPrefix(head, ret)
            /\ Len(rest) >= Len(call.alias) + 2
            /\ rest[1] = "\""
            /\ Last(rest) = "\""

Quoted(n) == <<"\"">> \o n \o <<"\"">>

\* C10: for a column stored as the quoted form of n at declaration position i,
\* name() is n, has_column(n) is true, column_index(n) is Some(i) and
\* column_name_at(i) is Some(n); column_index of a name that is no column is
\* None and column_name_at past the last column is None.
C10_NameLookups ==
    /\ call.fn = "name" => call.col.name = Quoted(ret)
    /\ call.fn = "has_column" =>
          (ret <=> \E i \in 1..Len(call.T.COLUMNS) :
                       call.T.COLUMNS[i].name = Quoted(call.name))
    /\ call.fn = "column_index" =>
          /\ \A i \in 1..Len(call.T.COLUMNS) :
                call.T.COLUMNS[i].name = Quoted(call.name) => ret = <<i - 1>>
          /\ (\A i \in 1..Len(call.T.COLUMNS) :
                call.T.COLUMNS[i].name # Quoted(call.name)) => ret = <<>>
    /\ call.fn = "column_name_at" =>
          IF call.index < Len(call.T.COLUMNS)
          THEN ret # <<>> /\ call.T.COLUMNS[call.index + 1].name = Quoted(ret[1])
          ELSE ret = <<>>

\* the string a literal body stands for: backslash followed by a character is
\* that character (n: newline, t: tab, r: carriage return)
RECURSIVE Unescape(_)
Unescape(b) ==
    IF b = <<>> THEN <<>>
    ELSE IF b[1] = "\\" /\ Len(b) >= 2
         THEN <<CASE b[2] = "n" -> "\n" [] b[2] = "t" -> "\t" [] b[2] = "r" -> "\r"
                  [] OTHER -> b[2]>> \o Unescape(SubSeq(b, 3, Len(b)))
         ELSE <<b[1]>> \o Unescape(Tail(b))

\* position of the first double quote of lit at or after i that no backslash
\* escapes, 0 when there is none
RECURSIVE ClosingQuote(_, _)
ClosingQuote(lit, i) ==
    IF i > Len(lit) THEN 0
    ELSE IF lit[i] = "\\" THEN ClosingQuote(lit, i + 2)
    ELSE IF lit[i] = "\"" THEN i
    ELSE ClosingQuote(lit, i + 1)

\* C11: the string codec renders a string as a literal in double quotes whose
\* first unescaped double quote is its last character (nothing in the value
\* ends the literal early), unescaping the literal gives back the string, and
\* no other string has the same literal.
C11_StringLiteralRoundTrip ==
    call.fn = "String_to_sql" =>
        /\ Len(ret) >= 2
        /\ ret[1] = "\""
        /\ ClosingQuote(ret, 2) = Len(ret)
        /\ Unescape(SubSeq(ret, 2, Len(ret) - 1)) = call.s
        /\ \A t \in StrInputs : String_to_sql(t) = ret => t = call.s

\* C11 witness: a string with a double quote and a backslash in it
C11_Witness ==
    /\ call.fn = "String_to_sql"
    /\ \E i, j \in 1..Len(call.s) : call.s[i] = "\"" /\ call.s[j] = "\\"
    /\ Len(ret) > Len(call.s) + 2

IsDigit(ch) == ch \in {"0", "1", "2", "3", "4", "5", "6", "7", "8", "9"}

\* lit is layout between double quotes: "9" in layout stands for any digit,
\* every other character for itself
HasLayout(lit, layout) ==
    /\ Len(lit) = Len(layout) + 2
    /\ lit[1] = "\""
    /\ lit[Len(lit)] = "\""
    /\ \A i \in 1..Len(layout) :
          IF layout[i] = "9" THEN IsDigit(lit[i + 1]) ELSE lit[i + 1] = layout[i]

\* C12: every date, time and timestamp is rendered as a double-quoted literal of
\* fixed layout, "YYYY-MM-DD", "HH:MM:SS" and "YYYY-MM-DDTHH:MM:SS", with the
\* same length and separator positions for all inputs.
C12_FixedDateTimeLayout ==
    /\ call.fn = "Date_to_sql" =>
          HasLayout(ret, <<"9", "9", "9", "9", "-", "9", "9", "-", "9", "9">>)
    /\ call.fn = "Time_to_sql" =>
          HasLayout(ret, <<"9", "9", ":", "9", "9", ":", "9", "9">>)
    /\ call.fn = "PrimitiveDateTime_to_sql" =>
          HasLayout(ret, <<"9", "9", "9", "9", "-", "9", "9", "-", "9", "9", "T",
                           "9", "9", ":", "9", "9", ":", "9", "9">>)

\* text is exactly the items, in order, with a single comma between neighbours
CommaJoined(text, items) ==
    /\ ItemsAt(text, 1, items, <<",">>)
    /\ Len(text) = SpanLen(items, <<",">>)

RECURSIVE DropLeadingEmpty(_)
DropLeadingEmpty(items) ==
    IF items # <<>> /\ Head(items) = <<>> THEN DropLeadingEmpty(Tail(items)) ELSE items

NoOuterComma(text) == text # <<>> => (text[1] # "," /\ Last(text) # ",")

\* C13 as stated: the selected columns, the GROUP BY items and the ORDER BY
\* items are each exactly the items pushed to that clause, in call order,
\* separated by single commas, without a leading or trailing comma.
C13_ExactCommaLists ==
    /\ CommaJoined(columns, hist["columns"]) /\ NoOuterComma(columns)
    /\ CommaJoined(group_by, hist["group"]) /\ NoOuterComma(group_by)
    /\ CommaJoined(order_by, hist["order"]) /\ NoOuterComma(order_by)

\* C13 amended: each of the three texts is the items pushed to its own clause,
\* in call order and without deduplication, an item being preceded by a single
\* comma exactly when the text before it is non-empty: the text is the items
\* from the first non-empty one on, separated by single commas; when every item
\* is non-empty that is all the items, with no leading or trailing comma.
C13_CommaLists ==
    \A c \in {<<columns, hist["columns"]>>, <<group_by, hist["group"]>>,
              <<order_by, hist["order"]>>} :
        /\ CommaJoined(c[1], DropLeadingEmpty(c[2]))
        /\ (\A i \in 1..Len(c[2]) : c[2][i] # <<>>) =>
              (CommaJoined(c[1], c[2]) /\ NoOuterComma(c[1]))

\* C13 witness: the same column pushed twice and a GROUP BY item pushed
C13_Witness ==
    /\ hist["columns"] = <<fragA, fragA>>
    /\ columns = <<"a", ",", "a">>
    /\ hist["group"] = <<fragOr>>
    /\ order_by = <<>>

====
